---- MODULE Spec2Model ----
(***************************************************************************)
(* Model of the tabular Q-learning core of rl_agent_sc2:                   *)
(*   - QLearningTable (src/algorithms/q_learning.py): the sparse value     *)
(*     table, its two hyperparameter configurations, choose_action, learn  *)
(*     and propagate_rewards;                                              *)
(*   - AgentQlearning (src/agent_qlearning.py): the per-tick controller    *)
(*     step(), the process-wide action queue multiActions, the terminal    *)
(*     path update_final_reward_and_retrain and reset()/new_game().        *)
(*                                                                         *)
(* Numbers.  Q-values and rewards are Python floats.  They are modelled    *)
(* as fixed-point integers counting units of 1/Scale; every product with   *)
(* a hyperparameter rounds toward minus infinity (MulDiv).  Learning       *)
(* rates are numerators over LrDen, discounts numerators over DecayDen.    *)
(*                                                                         *)
(* Exceptions.  Each operation of the table is an operator on a record     *)
(* [q, lr, rd, err, log]: q the DataFrame, lr/rd the hyperparameters,      *)
(* err whether a Python exception is propagating, log the calls made so    *)
(* far in the current handler.  A raised exception leaves every            *)
(* assignment made before it in place.                                     *)
(*                                                                         *)
(* Specifications.  Spec: the controller in one process, from an empty     *)
(* working directory.  TableSpec: the table called directly.  RunSpec:     *)
(* several process runs over the snapshot files.  ForeignSpec: the         *)
(* controller started on a snapshot with a policy column the registry      *)
(* lacks.  DecaySpec: the epsilon update over the episode counter.         *)
(***************************************************************************)
EXTENDS Integers, Sequences, FiniteSets, TLC

\* ------------------------------------------------------------------ bounds
NumStates == 2
MaxEpisodes == 2
MaxSteps == 5
MaxCalls == 2
MaxTraj == 2
MaxRuns == 2
MaxEpisodeNo == 7700

\* --------------------------------------------------------------- constants
Scale == 1000000
LrDen == 1000
DecayDen == 100

LR_INIT == 0
RD_INIT == 0
LR_LIVE == 1
RD_LIVE == 90
LR_RETRAIN == 10
RD_RETRAIN == 99

R_WIN == 100
R_LOSS == -50
C_DEN == 10
DRAW_MAX == 10
DRAW_MIN == -1

\* -0.001, in units of 1/Scale
BASE_REWARD == -1000
\* penalize_resource_misuse: -0.2 * (1 - efficiency_ratio), at ratio 0
PENALTY_MAX == -200000

\* EXPLORATION_MAX, EXPLORATION_MIN, EXPLORATION_DECAY in units of 1/Scale
EXPLORATION_MAX == 1000000
EXPLORATION_MIN == 100000
EXPLORATION_DECAY == 300

None == "None"
Terminal == "terminal"

\* encoded game states str(get_state(obs)): opaque row keys
StateKeys == <<"s0", "s1", "s2", "s3">>
States == {StateKeys[i] : i \in 1..NumStates}

Max2(a, b) == IF a >= b THEN a ELSE b
Min2(a, b) == IF a <= b THEN a ELSE b

\* ------------------------------------------------------- policy registry
Rep(n, a) == [i \in 1..n |-> a]

\* Python's optional value: None or a value
NoneR == <<>>
Some(x) == <<x>>

\* TerranAgent._set_policies: the dictionary as the source writes it
AllPolicies ==
  [ policy_0  |-> <<"do_nothing">>,
    policy_1  |-> <<"build_scv">>,
    policy_2  |-> <<"harvest_minerals">>,
    policy_3  |-> <<"harvest_gas">>,
    policy_4  |-> <<"build_command_center", "harvest_minerals", "harvest_minerals">>,
    policy_5  |-> <<"explore_csv">>,
    policy_6  |-> <<"build_supply_depot">>,
    policy_7  |-> <<"build_barracks">> \o Rep(5, "train_marine"),
    policy_8  |-> <<"build_bunker">>,
    policy_9  |-> <<"build_tech_lab">> \o Rep(4, "train_marauder"),
    policy_10 |-> Rep(5, "attack_with_marine"),
    policy_11 |-> Rep(5, "defense_with_marine"),
    policy_12 |-> Rep(5, "attack_with_marine") \o Rep(2, "attack_with_marauder"),
    policy_13 |-> Rep(3, "attack_with_marauder") ]

\* The model runs the agent with three of the fourteen entries registered:
\* the no-op policy, a one-action policy and the first composite policy.
PolicyIds == {"policy_0", "policy_1", "policy_4"}

dict_policies == [k \in PolicyIds |-> AllPolicies[k]]

\* get_specific_policy(-1, text): dict_policies.get(text)
\* g.policy_lists holds the current content of the list objects of the dict
get_specific_policy(g, text) ==
  IF text \in DOMAIN g.policy_lists THEN Some(g.policy_lists[text]) ELSE NoneR

\* ------------------------------------------------------------- arithmetic
\* floor(x * n / d) for d > 0, n >= 0, computed without forming x * n
MulDiv(x, n, d) == (x \div d) * n + ((x % d) * n) \div d

\* ---------------------------------------------------------- call history
\* one record per call made by the handler that is running
Ev(op, s, a, r, s_, lr, rd, n) ==
  [op |-> op, s |-> s, a |-> a, r |-> r, s_ |-> s_, lr |-> lr, rd |-> rd,
   n |-> n]

Note(t, e) == [t EXCEPT !.log = Append(@, e)]

\* the normal return of a call that the history brackets
Returned(t, name) ==
  Note(t, Ev("return", None, name, 0, None, t.lr, t.rd, 0))

\* ---------------------------------------------------------- QLearningTable
\* create_model() with no snapshot file: an empty DataFrame whose columns
\* are the policies; __init__ sets both hyperparameters to 0
NewTable ==
  [q |-> <<>>, lr |-> LR_INIT, rd |-> RD_INIT, err |-> FALSE, log |-> <<>>]

\* self.columns = self.q_table.columns[0:self.total_policies]
columns == PolicyIds

\* a row that lacks the column of one registered policy
NewRow_short == [c \in columns \ {"policy_4"} |-> 0]

\* pd.Series([0] * len(self.policies), index=self.q_table.columns, name=state)
NewRow == [c \in columns |-> 0]

setup_hyperparameters(t, condition) ==
  IF condition
    THEN [t EXCEPT !.lr = LR_LIVE, !.rd = RD_LIVE]
    ELSE [t EXCEPT !.lr = LR_RETRAIN, !.rd = RD_RETRAIN]

\* ensure-row that writes a fresh row whether or not the state has one
check_state_exist_reset(t, state) ==
  [t EXCEPT !.q = [k \in DOMAIN t.q \cup {state} |->
                     IF k = state THEN NewRow ELSE t.q[k]]]

\* ensure-row that inserts a row with a non-zero cell
check_state_exist_nonzero(t, state) ==
  IF state \notin DOMAIN t.q
    THEN [t EXCEPT !.q = (state :> [c \in columns |-> IF c = "policy_0" THEN Scale ELSE 0]) @@ t.q]
    ELSE t


check_state_exist(t, state) ==
  IF state \notin DOMAIN t.q
    THEN [t EXCEPT !.q = (state :> NewRow) @@ t.q]
    ELSE t

\* the smallest value of a row
RowMin(row) ==
  CHOOSE m \in {row[c] : c \in DOMAIN row} : \A c \in DOMAIN row : m <= row[c]

\* self.q_table.loc[s_, self.columns].max()
RowMax(row) ==
  CHOOSE m \in {row[c] : c \in DOMAIN row} : \A c \in DOMAIN row : row[c] <= m

\* q_table.loc[s, a] raises KeyError unless s is a row and a is a column
HasCell(q, s, a) == s \in DOMAIN q /\ a \in DOMAIN q[s]

\* a target that discounts the reward of a terminal transition
q_target_discounted(t, r, s_) ==
  IF s_ # Terminal
    THEN r + ((RowMax(t.q[s_]) \div DecayDen) * t.rd + ((RowMax(t.q[s_]) % DecayDen) * t.rd) \div DecayDen)
    ELSE (r \div DecayDen) * t.rd + ((r % DecayDen) * t.rd) \div DecayDen

q_target(t, r, s_) ==
  IF s_ # Terminal
    THEN r + MulDiv(RowMax(t.q[s_]), t.rd, DecayDen)
    ELSE r

\* a learn that writes the updated value into every cell of the row of s
learn_row(t, s, a, r, s_) ==
  LET t0 == Note(t, Ev("learn", s, a, r, s_, t.lr, t.rd, 0))
      t1 == check_state_exist(t0, s_)
  IN IF ~HasCell(t1.q, s, a)
       THEN [t1 EXCEPT !.err = TRUE]
       ELSE LET q_predict == t1.q[s][a]
                error == q_target(t1, r, s_) - q_predict
            IN [t1 EXCEPT !.q[s] = [c \in DOMAIN @ |->
                                      q_predict + MulDiv(error, t1.lr, LrDen)]]

learn(t, s, a, r, s_) ==
  LET t0 == Note(t, Ev("learn", s, a, r, s_, t.lr, t.rd, 0))
      t1 == check_state_exist(t0, s_)
  IN IF ~HasCell(t1.q, s, a)
       THEN [t1 EXCEPT !.err = TRUE]
       ELSE LET q_predict == t1.q[s][a]
                error == q_target(t1, r, s_) - q_predict
            IN [t1 EXCEPT !.q[s][a] = q_predict + MulDiv(error, t1.lr, LrDen)]

\* propagation that adds the final reward to the recorded one
PropagateEntry_added(t, e, final_reward) ==
  IF e[1] # None /\ e[2] # None /\ e[3] # NoneR
    THEN IF ~HasCell(t.q, e[1], e[2]) THEN [t EXCEPT !.err = TRUE]
         ELSE learn(t, e[1], e[2], e[3][1] + final_reward, e[4])
    ELSE t

\* the body of the loop of propagate_rewards for one trajectory entry
PropagateEntry(t, e, final_reward) ==
  IF e[1] # None /\ e[2] # None /\ e[3] # NoneR
    THEN IF ~HasCell(t.q, e[1], e[2])
           THEN [t EXCEPT !.err = TRUE]
           ELSE learn(t, e[1], e[2], final_reward, e[4])
    ELSE t

RECURSIVE PropagateLoop(_, _, _, _)
PropagateLoop(t, episode_rewards, i, final_reward) ==
  IF i > Len(episode_rewards) \/ t.err
    THEN t
    ELSE PropagateLoop(PropagateEntry(t, episode_rewards[i], final_reward),
                       episode_rewards, i + 1, final_reward)

propagate_rewards(t, episode_rewards, final_reward) ==
  LET t0 == Note(t, Ev("propagate_rewards", None, None, final_reward, None,
                       t.lr, t.rd, Len(episode_rewards)))
      t1 == setup_hyperparameters(t0, FALSE)
  IN IF Len(episode_rewards) = 0
       THEN Returned(t1, "propagate_rewards")
       ELSE LET t2 == PropagateLoop(t1, episode_rewards, 1, final_reward)
            IN IF t2.err
                 THEN t2
                 ELSE Returned(setup_hyperparameters(t2, TRUE), "propagate_rewards")

\* every column of a row, maximal or not
ArgAny(row) == DOMAIN row

\* the policies achieving the row's maximum:
\* Qactions[Qactions == np.max(Qactions)].index
ArgMax(row) == {c \in DOMAIN row : row[c] = RowMax(row)}

\* the (action, is_exploration) tuples choose_action can return once the
\* row exists; u is the np.random.uniform() draw
ChoiceSet(t, observation, epsilon, u, training) ==
  LET Qactions == t.q[observation]
  IN IF training
       THEN IF u < epsilon
              THEN {<<p, TRUE>> : p \in PolicyIds}
              ELSE {<<p, FALSE>> : p \in ArgMax(Qactions)}
       ELSE IF DOMAIN Qactions # {}
              THEN {<<p, FALSE>> : p \in ArgMax(Qactions)}
              ELSE {<<"do_nothing", FALSE>>}

\* the history records the policy returned and (n) whether it was explored
choose_action(t, observation, choice) ==
  Note(check_state_exist(t, observation),
       Ev("choose_action", observation, choice[1], 0, None, t.lr, t.rd,
          IF choice[2] THEN 1 ELSE 0))

\* floor(a * b / Scale) for 0 <= a, b <= Scale, computed in two halves of
\* three decimal digits so that no intermediate product exceeds 32 bits
MulFix(a, b) ==
  LET p == (a \div 1000) * b
      q == (a % 1000) * b
  IN p \div 1000 + ((p % 1000) * 1000 + q) \div Scale

\* np.exp(-decay), in units of 1/Scale: 1 - x + x^2/2 for the small x = decay
ExpStep(decay) == Scale - decay + (decay * decay) \div (2 * Scale)

\* k^n in fixed point, by n multiplications
RECURSIVE PowLin(_, _)
PowLin(k, n) == IF n = 0 THEN Scale ELSE MulFix(PowLin(k, n - 1), k)

\* k^n in fixed point, digit by decimal digit of n
RECURSIVE PowDec(_, _)
PowDec(k, n) ==
  IF n = 0 THEN Scale
  ELSE MulFix(PowLin(k, n % 10), PowDec(PowLin(k, 10), n \div 10))

\* np.exp(-decay * n) = exp(-decay)^n
ExpNeg(decay, n) == PowDec(ExpStep(decay), n)

\* exponential_decay: EXPLORATION_MAX * np.exp(-EXPLORATION_DECAY * episode),
\* in units of 1/Scale
exponential_decay(episode, decay, max) == MulFix(max, ExpNeg(decay, episode))

\* ----------------------------------------------------------- reward layer
AttackActions == {"attack_with_marauder", "attack_with_marine", "defense_with_marine"}

get_reward_for_attack(action) == IF action \in AttackActions THEN Scale ELSE 0

\* Reward.get_specific_reward; penalty is penalize_resource_misuse(obs)
get_specific_reward(action, execute_action, penalty) ==
  IF execute_action = 1
    THEN BASE_REWARD + penalty + get_reward_for_attack(action)
    ELSE BASE_REWARD

\* the draw branch of update_final_reward_and_retrain, for the two lengths
\* it compares: int(c * (len_my / len_enemy)) capped at 10, or
\* int(-c * (len_enemy / len_my)) floored at -1   (c = 0.1)
DrawReward(len_my, len_enemy) ==
  IF len_my >= len_enemy
    THEN Min2(len_my \div (C_DEN * len_enemy), DRAW_MAX)
    ELSE Max2(-(len_enemy \div (C_DEN * len_my)), DRAW_MIN)

FinalReward(obs) ==
  IF obs.reward = 1 THEN R_WIN * Scale
  ELSE IF obs.reward = -1 THEN R_LOSS * Scale
  ELSE LET len_my == IF obs.len_enemy_units > 0 THEN obs.len_enemy_units ELSE 1
           len_enemy == IF obs.len_enemy_units > 0 THEN obs.len_enemy_units ELSE 1
       IN DrawReward(len_my, len_enemy) * Scale

\* ------------------------------------------------------------- controller
\* The agent is threaded through a handler as a record g: g.t is the
\* QLearningTable, the other fields are the attributes of AgentQlearning
\* and the module-level queue multiActions.

AppendTransition(g, s, a, r, s_) ==
  [g EXCEPT !.episode_rewards = Append(@, <<s, a, Some(r), s_>>),
            !.t = Note(@, Ev("append", s, a, r, s_, g.t.lr, g.t.rd, 0))]

\* terminal path without the direct learn call
update_final_reward_and_retrain_propagate_only(g, obs, final_state) ==
  LET rf == FinalReward(obs)
      g1 == [g EXCEPT !.reward_final = rf,
                      !.total_rewards_by_episode = @ + rf]
      g2 == AppendTransition(g1, g1.previous_state, g1.previous_policy, rf, final_state)
  IN [g2 EXCEPT !.t = propagate_rewards(g2.t, g2.episode_rewards, rf)]


update_final_reward_and_retrain(g, obs, final_state) ==
  LET rf == FinalReward(obs)
      g1 == [g EXCEPT !.reward_final = rf,
                      !.total_rewards_by_episode = @ + rf]
      g2 == AppendTransition(g1, g1.previous_state, g1.previous_policy, rf, final_state)
      t3 == learn(g2.t, g2.previous_state, g2.previous_policy, rf, final_state)
  IN IF t3.err
       THEN [g2 EXCEPT !.t = t3]
       ELSE [g2 EXCEPT !.t = propagate_rewards(t3, g2.episode_rewards, rf)]

\* an executeActions that removes the head in place (list.pop(0)): when the
\* queue is the list object of a registered policy, that list loses it too
executeActions_pop(g) ==
  [g EXCEPT !.multiActions = Tail(@),
            !.policy_lists = IF g.queue_alias # None
                               THEN [@ EXCEPT ![g.queue_alias] = Tail(@)]
                               ELSE @]

\* executeActions(): multiActions = multiActions[1:len(multiActions)] binds
\* the global to a new list; the list object it was bound to is untouched
executeActions(g) ==
  [g EXCEPT !.multiActions = Tail(@), !.queue_alias = None]

\* get_specific_action: the (command, success, position) tuple of the
\* action object.  success is the outcome of the action's own precondition
\* checks on this observation; an unmet precondition gives the no-op
\* command, success 0 and no position, and any key without an action
\* object ('do_nothing') gives (no_op, 1, no position).
get_specific_action(key, success) ==
  IF key = "do_nothing" THEN <<"no_op", 1, None>>
  ELSE IF success = 1 THEN <<key, 1, "position">>
  ELSE <<"no_op", 0, None>>

\* a queue branch that keeps an action that could not execute at the head
\* of the queue
DispatchBranch_retry(g, obs) ==
  LET instant_action == Head(g.multiActions)
      result == get_specific_action(instant_action, obs.success)
      reward_actions == get_specific_reward(instant_action, result[2], obs.penalty)
      g1 == [g EXCEPT !.multiActions = IF result[2] = 1 THEN Tail(@) ELSE @,
                      !.t = Note(@, Ev("dispatch", result[3], instant_action,
                                       reward_actions, result[1], g.t.lr, g.t.rd,
                                       result[2]))]
  IN IF g.train_mode
       THEN [g1 EXCEPT !.total_rewards_by_policy = @ + reward_actions,
                       !.total_rewards_by_episode = @ + reward_actions]
       ELSE g1

\* executeActions() and the queue branch of step; the history records the
\* action popped, its reward, and the command, success flag and position
\* returned by the action object
DispatchBranch(g, obs) ==
  LET instant_action == Head(g.multiActions)
      ge == executeActions(g)
      result == get_specific_action(instant_action, obs.success)
      execute_action == result[2]
      reward_actions == get_specific_reward(instant_action, execute_action, obs.penalty)
      g1 == [ge EXCEPT !.t = Note(@, Ev("dispatch", result[3], instant_action,
                                        reward_actions, result[1], g.t.lr, g.t.rd,
                                        execute_action))]
  IN IF g.train_mode
       THEN [g1 EXCEPT !.total_rewards_by_policy = @ + reward_actions,
                       !.total_rewards_by_episode = @ + reward_actions]
       ELSE g1

\* a decision branch that uses the decayed value without the lower limit
DecisionLearn_unfloored(g, obs) ==
  IF g.train_mode
    THEN LET next_state == IF obs.last THEN Terminal ELSE obs.state
             g1 == IF g.previous_policy # None
                     THEN LET ga == AppendTransition(g, g.previous_state, g.previous_policy,
                                                     g.total_rewards_by_policy, next_state)
                          IN [ga EXCEPT !.t = learn(ga.t, g.previous_state, g.previous_policy,
                                                    g.total_rewards_by_policy, next_state)]
                     ELSE g
         IN IF g1.t.err
              THEN g1
              ELSE [g1 EXCEPT !.epsilon =
                      exponential_decay(g.episodes, EXPLORATION_DECAY, EXPLORATION_MAX)]
    ELSE g

\* the first half of the decision branch of step: the learn of the previous
\* decision and the epsilon update (training only)
DecisionLearn(g, obs) ==
  IF g.train_mode
    THEN LET next_state == IF obs.last THEN Terminal ELSE obs.state
             g1 == IF g.previous_policy # None
                     THEN LET ga == AppendTransition(g, g.previous_state, g.previous_policy,
                                                     g.total_rewards_by_policy, next_state)
                          IN [ga EXCEPT !.t = learn(ga.t, g.previous_state, g.previous_policy,
                                                    g.total_rewards_by_policy, next_state)]
                     ELSE g
         IN IF g1.t.err
              THEN g1
              ELSE [g1 EXCEPT !.epsilon =
                      Max2(EXPLORATION_MIN,
                           exponential_decay(g.episodes, EXPLORATION_DECAY, EXPLORATION_MAX))]
    ELSE g

\* the choices choose_action can return on this decision
DecisionChoices(g, obs) ==
  LET g1 == DecisionLearn(g, obs)
  IN IF g1.t.err THEN {<<None, FALSE>>}
     ELSE ChoiceSet(check_state_exist(g1.t, obs.state), obs.state, g1.epsilon,
                    obs.u, g1.train_mode)

\* a decision branch that leaves the accumulated per-policy reward as it is
DecisionBranch_keep_total(g, obs, choice) ==
  LET g1 == DecisionLearn(g, obs)
  IN IF g1.t.err
       THEN g1
       ELSE LET policy_selected == choice[1]
                policy_select == get_specific_policy(g, policy_selected)
                g2 == [g1 EXCEPT !.t = choose_action(@, obs.state, choice)]
                g3 == IF policy_select # NoneR
                        THEN [g2 EXCEPT !.multiActions = policy_select[1],
                                        !.queue_alias = policy_selected]
                        ELSE g2
            IN [g3 EXCEPT !.previous_state = obs.state,
                          !.previous_policy = policy_selected]

DecisionBranch(g, obs, choice) ==
  LET g1 == DecisionLearn(g, obs)
  IN IF g1.t.err
       THEN g1
       ELSE LET policy_selected == choice[1]
                policy_select == get_specific_policy(g, policy_selected)
                g2 == [g1 EXCEPT !.t = choose_action(@, obs.state, choice)]
                g3 == IF policy_select # NoneR
                        THEN [g2 EXCEPT !.multiActions = policy_select[1],
                                        !.queue_alias = policy_selected]
                        ELSE g2
            IN [g3 EXCEPT !.previous_state = obs.state,
                          !.previous_policy = policy_selected,
                          !.total_rewards_by_policy = 0]

\* str(self.get_state(obs)): reading a field the observation lacks raises
get_state(g, obs) == IF obs.malformed THEN [g EXCEPT !.t.err = TRUE] ELSE g

\* a step that, having popped the last queued action, goes on to make the
\* next decision on the same tick
step_decide_on_drain(g, obs, choice) ==
  LET g0 == get_state(g, obs)
      g1 == IF g0.train_mode /\ obs.last
              THEN update_final_reward_and_retrain(g0, obs, Terminal)
              ELSE g0
  IN IF g0.t.err
       THEN g0
       ELSE IF g1.t.err
              THEN g1
              ELSE IF g1.multiActions # <<>>
                     THEN LET g2 == DispatchBranch(g1, obs)
                          IN IF g2.multiActions = <<>>
                               THEN DecisionBranch(g2, obs, <<"policy_0", FALSE>>)
                               ELSE g2
                     ELSE DecisionBranch(g1, obs, choice)

\* a step that runs the terminal path at every episode end, in evaluation
\* mode too
step_terminal_any_mode(g, obs, choice) ==
  LET g0 == get_state(g, obs)
      g1 == IF obs.last
              THEN update_final_reward_and_retrain(g0, obs, Terminal)
              ELSE g0
  IN IF g0.t.err
       THEN g0
       ELSE IF g1.t.err
              THEN g1
              ELSE IF g1.multiActions # <<>>
                     THEN DispatchBranch(g1, obs)
                     ELSE DecisionBranch(g1, obs, choice)

step(g, obs, choice) ==
  LET g0 == get_state(g, obs)
      g1 == IF g0.train_mode /\ obs.last
              THEN update_final_reward_and_retrain(g0, obs, Terminal)
              ELSE g0
  IN IF g0.t.err
       THEN g0
       ELSE IF g1.t.err
              THEN g1
              ELSE IF g1.multiActions # <<>>
                     THEN DispatchBranch(g1, obs)
                     ELSE DecisionBranch(g1, obs, choice)

\* ------------------------------------------------------------ persistence
\* The working directory is a function from file names to file contents.
\* A CSV file written by DataFrame.to_csv is modelled by its cells: the label
\* of the index column (empty in the header line), the column names, and for
\* every row its key and the decimal text of every value.
OLD_FILE == "old_qlearning_table_train.csv"
NEW_FILE == "new_qlearning_table_train.csv"

\* the strings read_csv turns into NaN
NaStrings == {"", "NA", "N/A", "NaN", "nan", "NULL", "null", "n/a", "#N/A"}
NaN == "nan"

Abs(x) == IF x < 0 THEN -x ELSE x

\* the decimal digits of a natural number, most significant first
RECURSIVE Digits(_)
Digits(n) == IF n < 10 THEN <<n>> ELSE Append(Digits(n \div 10), n % 10)

\* the value of a sequence of decimal digits
RECURSIVE Number(_)
Number(ds) ==
  IF ds = <<>> THEN 0
  ELSE 10 * Number(SubSeq(ds, 1, Len(ds) - 1)) + ds[Len(ds)]

RECURSIVE Pow10(_)
Pow10(n) == IF n = 0 THEN 1 ELSE 10 * Pow10(n - 1)

\* the number of decimal places of one unit 1/Scale
RECURSIVE Places(_)
Places(s) == IF s <= 1 THEN 0 ELSE 1 + Places(s \div 10)

\* digits ds padded with leading zeros to n digits
RECURSIVE PadLeft(_, _)
PadLeft(ds, n) == IF Len(ds) >= n THEN ds ELSE PadLeft(<<0>> \o ds, n)

\* digits ds without trailing zeros, keeping at least one digit
RECURSIVE StripRight(_)
StripRight(ds) ==
  IF Len(ds) > 1 /\ ds[Len(ds)] = 0
    THEN StripRight(SubSeq(ds, 1, Len(ds) - 1))
    ELSE ds

\* shortest decimal text of a float (sign, integer digits, fraction digits)
FormatFloat(x) ==
  [neg |-> x < 0,
   int |-> Digits(Abs(x) \div Scale),
   frac |-> StripRight(PadLeft(Digits(Abs(x) % Scale), Places(Scale)))]

\* the float a decimal text denotes
ParseFloat(f) ==
  LET v == Number(f.int) * Scale
           + Number(f.frac) * Pow10(Places(Scale) - Len(f.frac))
  IN IF f.neg THEN -v ELSE v

\* DataFrame.to_csv(path, mode='w') with the default index=True, header=True
to_csv(q) ==
  [index_label |-> "",
   columns |-> IF q = <<>> THEN columns ELSE DOMAIN q[CHOOSE k \in DOMAIN q : TRUE],
   rows |-> [k \in DOMAIN q |-> [c \in DOMAIN q[k] |-> FormatFloat(q[k][c])]]]

\* pd.read_csv, rename 'Unnamed: 0' to 'status', set_index(['status'])
read_csv(text) ==
  LET label == IF text.index_label = "" THEN "Unnamed: 0" ELSE text.index_label
      status == IF label = "Unnamed: 0" THEN "status" ELSE label
      key(k) == IF k \in NaStrings THEN NaN ELSE k
  IN [err |-> status # "status",
      q |-> [k \in {key(r) : r \in DOMAIN text.rows} |->
               LET r == CHOOSE r \in DOMAIN text.rows : key(r) = k
               IN [c \in DOMAIN text.rows[r] |-> ParseFloat(text.rows[r][c])]]]

_valid_csv_exists(files) == OLD_FILE \in DOMAIN files

load_train_csv(files) == read_csv(files[OLD_FILE])

\* the table a new QLearningTable starts with
create_model(files) ==
  IF _valid_csv_exists(files) THEN load_train_csv(files).q ELSE <<>>

new_game(g) ==
  [g EXCEPT !.episode_rewards = <<>>,
            !.previous_state = None,
            !.previous_policy = None,
            !.total_rewards_by_episode = 0,
            !.reward_final = 0]

\* reset(): BaseAgent.reset() counts the episode, the table is written to
\* new_qlearning_table_train.csv, then new_game()
reset(g) ==
  new_game([g EXCEPT !.episodes = @ + 1,
                    !.files = (NEW_FILE :> to_csv(g.t.q)) @@ @])

\* ------------------------------------------------------------------ state
VARIABLES
  q_table, learning_rate, reward_decay,        \* QLearningTable
  multiActions,                                \* module-level action queue
  episode_rewards, previous_state, previous_policy,
  total_rewards_by_policy, total_rewards_by_episode, reward_final,
  epsilon, episodes, train_mode,               \* AgentQlearning
  steps,                                       \* BaseAgent.steps
  pc, ticks,                                   \* the run loop calling the agent
  ncalls,                                      \* calls made by a direct user of the table
  files, runs,                                 \* working directory, processes started
  policy_lists, queue_alias,                   \* the lists of dict_policies; the one multiActions is
  flight,                                      \* history of the policy in flight
  op, pre, log                                 \* history of the last operation

vars == <<q_table, learning_rate, reward_decay, multiActions, episode_rewards,
          previous_state, previous_policy, total_rewards_by_policy,
          total_rewards_by_episode, reward_final, epsilon, episodes, train_mode,
          steps, pc, ticks, ncalls, files, runs, policy_lists, queue_alias,
          flight, op, pre, log>>

Table == [q |-> q_table, lr |-> learning_rate, rd |-> reward_decay,
          err |-> FALSE, log |-> <<>>]

Agent ==
  [t |-> Table, multiActions |-> multiActions, episode_rewards |-> episode_rewards,
   previous_state |-> previous_state, previous_policy |-> previous_policy,
   total_rewards_by_policy |-> total_rewards_by_policy,
   total_rewards_by_episode |-> total_rewards_by_episode,
   reward_final |-> reward_final, epsilon |-> epsilon, episodes |-> episodes,
   train_mode |-> train_mode, files |-> files,
   policy_lists |-> policy_lists, queue_alias |-> queue_alias]

InstallTable(t) ==
  /\ q_table' = t.q
  /\ learning_rate' = t.lr
  /\ reward_decay' = t.rd
  /\ log' = t.log

Install(g) ==
  /\ InstallTable(g.t)
  /\ multiActions' = g.multiActions
  /\ episode_rewards' = g.episode_rewards
  /\ previous_state' = g.previous_state
  /\ previous_policy' = g.previous_policy
  /\ total_rewards_by_policy' = g.total_rewards_by_policy
  /\ total_rewards_by_episode' = g.total_rewards_by_episode
  /\ reward_final' = g.reward_final
  /\ epsilon' = g.epsilon
  /\ episodes' = g.episodes
  /\ train_mode' = g.train_mode
  /\ files' = g.files
  /\ policy_lists' = g.policy_lists
  /\ queue_alias' = g.queue_alias

Snapshot == [q |-> q_table, lr |-> learning_rate, rd |-> reward_decay]

\* history of the policy in flight: the policy chosen by the last decision
\* of the running episode (None when there is none or the episode ended or
\* was aborted since), the actions dispatched since that decision, the sum
\* of their instantaneous rewards, the ticks since it, and, on a decision
\* tick, the policy and actions of the decision before it
NoFlight ==
  [decided |-> None, dispatched |-> <<>>, rewards |-> 0, since |-> 0,
   prior_decided |-> None, prior_dispatched |-> <<>>]

Dispatched(lg) == {i \in 1..Len(lg) : lg[i].op = "dispatch"}
Decided(lg) == {i \in 1..Len(lg) : lg[i].op = "choose_action"}

\* the reward of the action dispatched in a history (0 when there is none)
DispatchReward(lg) ==
  IF Dispatched(lg) = {} THEN 0 ELSE lg[CHOOSE j \in Dispatched(lg) : TRUE].r

InFlight(g, obs) ==
  IF g.t.err \/ obs.last THEN NoFlight
  ELSE IF Decided(g.t.log) # {}
    THEN [decided |-> g.previous_policy, dispatched |-> <<>>, rewards |-> 0,
          since |-> 0,
          prior_decided |-> flight.decided,
          prior_dispatched |-> flight.dispatched]
  ELSE IF flight.decided = None THEN NoFlight
  ELSE [decided |-> flight.decided,
        dispatched |-> flight.dispatched
                         \o [i \in 1..Cardinality(Dispatched(g.t.log)) |->
                               g.t.log[CHOOSE j \in Dispatched(g.t.log) : TRUE].a],
        rewards |-> flight.rewards + DispatchReward(g.t.log),
        since |-> flight.since + 1,
        prior_decided |-> None, prior_dispatched |-> <<>>]

\* a table snapshot left in the working directory by an earlier use
OldTable ==
  StateKeys[1] :> [c \in columns |-> IF c = "policy_0" THEN Scale ELSE 0]

\* the working directories a process can be started in: empty, or holding
\* a table snapshot under the name the loader reads
FileSystems == {<<>>, OLD_FILE :> to_csv(OldTable)}

\* AgentQlearning.__init__ in working directory fs; last_episodes is the
\* episode count check_file_stats_game reads from the statistics file (0
\* without one)
StartAt(fs, last_episodes) ==
  /\ q_table = create_model(fs)
  /\ learning_rate = NewTable.lr
  /\ reward_decay = NewTable.rd
  /\ multiActions = <<>>
  /\ episode_rewards = <<>>
  /\ previous_state = None
  /\ previous_policy = None
  /\ total_rewards_by_policy = 0
  /\ total_rewards_by_episode = 0
  /\ reward_final = 0
  /\ epsilon = 0
  /\ episodes = last_episodes
  /\ train_mode \in BOOLEAN
  /\ steps = 0
  /\ pc = "boundary"
  /\ ticks = 0
  /\ ncalls = 0
  /\ files = fs
  /\ runs = 1
  /\ policy_lists = dict_policies
  /\ queue_alias = None
  /\ flight = NoFlight
  /\ op = [name |-> "init"]
  /\ pre = [q |-> create_model(fs), lr |-> NewTable.lr, rd |-> NewTable.rd]
  /\ log = <<>>

\* the start without a statistics file
Start(fs) == StartAt(fs, 0)

\* the first start, in an empty working directory
Init == Start(<<>>)

\* ------------------------------------------------------------ environment
Outcomes == {1, -1, 0}
EnemyCounts == {0, 20}
MyCounts == {2, 200}
Draws == {0, Scale - 1}
Penalties == {0, PENALTY_MAX}

\* the observations the environment can deliver on this tick; a field the
\* handler will not read on this tick is held at one value; a malformed
\* observation lacks a field get_state reads.  A draw comes with 200 own
\* units and no visible enemy unit, or with 2 own units against 20.
MalformedObservation ==
  [state |-> StateKeys[1], last |-> FALSE, reward |-> 1,
   len_enemy_units |-> 0, len_my_units |-> 2, success |-> 1, penalty |-> 0,
   u |-> 0, malformed |-> TRUE]

Observations ==
  {MalformedObservation} \cup
  { [state |-> b.state, last |-> b.last, reward |-> b.reward,
     len_enemy_units |-> b.len_enemy_units,
     len_my_units |->
       CHOOSE n \in MyCounts :
          (n = 200) = (b.last /\ train_mode /\ b.reward = 0
                         /\ b.len_enemy_units = 0),
     success |-> b.success, penalty |-> b.penalty, u |-> b.u,
     malformed |-> FALSE] :
    b \in { o \in [state : States, last : BOOLEAN, reward : Outcomes,
                    len_enemy_units : EnemyCounts, success : {0, 1},
                    penalty : Penalties, u : Draws] :
      /\ (ticks = 0 => ~o.last)
      /\ (multiActions # <<>> => o.state = StateKeys[1])
      /\ (~(o.last /\ train_mode) => o.reward = 1)
      /\ (~(o.last /\ train_mode /\ o.reward = 0) => o.len_enemy_units = 0)
      /\ (multiActions = <<>> \/ Head(multiActions) = "do_nothing" => o.success = 1)
      /\ (multiActions = <<>> \/ ~train_mode \/ o.success = 0 => o.penalty = 0)
      /\ (multiActions # <<>> \/ ~train_mode => o.u = 0) } }

\* what choose_action may return on this tick (one dummy when it is not called)
StepChoices(g, obs) ==
  LET g1 == IF g.train_mode /\ obs.last
              THEN update_final_reward_and_retrain(g, obs, Terminal)
              ELSE g
  IN IF obs.malformed \/ g1.t.err \/ g1.multiActions # <<>>
       THEN {<<None, FALSE>>}
       ELSE DecisionChoices(g1, obs)

\* one tick: the run loop calls step(obs); an exception leaves the episode
Step ==
  /\ pc = "running"
  /\ steps < MaxSteps
  /\ \E obs \in Observations :
       \E choice \in StepChoices(Agent, obs) :
          LET g == step(Agent, obs, choice)
          IN /\ Install(g)
             /\ pc' = IF obs.last \/ g.t.err THEN "boundary" ELSE "running"
             /\ ticks' = ticks + 1
             /\ steps' = steps + 1
             /\ op' = [name |-> "step", last |-> obs.last, raised |-> g.t.err,
                       malformed |-> obs.malformed,
                       state |-> obs.state, reward |-> obs.reward,
                       len_enemy_units |-> obs.len_enemy_units,
                       len_my_units |-> obs.len_my_units,
                       terminal |-> IF train_mode /\ obs.last
                                      THEN update_final_reward_and_retrain(
                                             Agent, obs, Terminal).t.q
                                      ELSE q_table,
                       queue |-> multiActions, trajectory |-> episode_rewards,
                       previous_state |-> previous_state,
                       previous_policy |-> previous_policy,
                       total_rewards_by_policy |-> total_rewards_by_policy,
                       total_rewards_by_episode |-> total_rewards_by_episode,
                       train_mode |-> train_mode,
                       epsilon |-> epsilon,
                       flight |-> flight,
                       episodes |-> episodes]
             /\ pre' = Snapshot
             /\ flight' = InFlight(g, obs)
             /\ UNCHANGED <<ncalls, runs>>

\* the run loop calls reset() before every episode
Reset ==
  /\ pc = "boundary"
  /\ episodes < MaxEpisodes
  /\ Install(reset(Agent))
  /\ pc' = "running"
  /\ ticks' = 0
  /\ UNCHANGED steps
  /\ op' = [name |-> "reset", queue |-> multiActions]
  /\ pre' = Snapshot
  /\ flight' = NoFlight
  /\ UNCHANGED <<ncalls, runs>>

Next == Step \/ Reset

Spec == Init /\ [][Next]_vars

\* ---------------------------------------------------------- several runs
\* The process ends between two episodes and the program is started again
\* in the same working directory: module globals and the agent are created
\* anew, the table by create_model().
Startup ==
  /\ pc = "boundary"
  /\ runs < MaxRuns
  /\ q_table' = create_model(files)
  /\ learning_rate' = NewTable.lr
  /\ reward_decay' = NewTable.rd
  /\ multiActions' = <<>>
  /\ episode_rewards' = <<>>
  /\ previous_state' = None
  /\ previous_policy' = None
  /\ total_rewards_by_policy' = 0
  /\ total_rewards_by_episode' = 0
  /\ reward_final' = 0
  /\ epsilon' = 0
  /\ episodes' = 0
  /\ steps' = 0
  /\ ticks' = 0
  /\ runs' = runs + 1
  /\ policy_lists' = dict_policies
  /\ queue_alias' = None
  /\ flight' = NoFlight
  /\ log' = <<>>
  /\ op' = [name |-> "startup", table |-> q_table]
  /\ pre' = Snapshot
  /\ UNCHANGED <<train_mode, pc, ncalls, files>>

RunInit == \E fs \in FileSystems : Start(fs) /\ train_mode = TRUE

RunNext == Step \/ Reset \/ Startup

RunSpec == RunInit /\ [][RunNext]_vars

\* ------------------------------------------- a snapshot of other policies
\* The program is started on a table snapshot written under a registry that
\* differs in one policy: the file has as many policy columns as the
\* registry has entries, one of them under an id the registry lacks.  The
\* snapshot has a row for every state and for 'terminal'; the row of the
\* first state values the foreign policy highest.
UNKNOWN_ID == "policy_14"

ForeignColumns == {"policy_0", "policy_1", UNKNOWN_ID}

ForeignTable ==
  [s \in States \cup {Terminal} |->
     [c \in ForeignColumns |->
        IF s = StateKeys[1] /\ c = UNKNOWN_ID THEN Scale ELSE 0]]

ForeignInit == StartAt(OLD_FILE :> to_csv(ForeignTable), 0)

ForeignNext == Step \/ Reset

ForeignSpec == ForeignInit /\ [][ForeignNext]_vars

\* ------------------------------------------------ epsilon over episodes
\* The epsilon update of the decision branch as a function of the episode
\* counter: the agent starts with the counter a statistics file of any length
\* gives it, and the first training decision computes epsilon.
DecayInit ==
  \E n \in 0..MaxEpisodeNo : StartAt(<<>>, n) /\ train_mode = TRUE

DecisionEpsilon ==
  /\ op.name = "init"
  /\ \E obs \in Observations :
       /\ ~obs.malformed
       /\ Install(DecisionLearn(Agent, obs))
       /\ op' = [name |-> "epsilon", episodes |-> episodes,
                 next |-> DecisionLearn([Agent EXCEPT !.episodes = @ + 1],
                                        obs).epsilon]
  /\ pre' = Snapshot
  /\ UNCHANGED <<steps, pc, ticks, ncalls, runs, flight>>

DecayNext == DecisionEpsilon

DecaySpec == DecayInit /\ [][DecayNext]_vars

\* ------------------------------------------------- the table used directly
\* A caller of QLearningTable other than the agent: any of its four
\* operations, with any arguments, MaxCalls times.  An exception raised by
\* a call is caught by the caller; the table keeps what the call had done.

ApiRewards == {BASE_REWARD, Scale}
FinalRewards == {R_WIN * Scale, R_LOSS * Scale}
Epsilons == {0, EXPLORATION_MAX}

\* trajectory entries (state, action, reward, next_state): complete ones
\* (terminal and non-terminal next state), and ones with a None state,
\* action or reward
ApiEntries ==
  {<<StateKeys[1], "policy_0", Some(BASE_REWARD), Terminal>>,
   <<StateKeys[1], "policy_4", Some(Scale), StateKeys[NumStates]>>,
   <<None, "policy_0", Some(Scale), Terminal>>,
   <<StateKeys[1], None, Some(Scale), Terminal>>,
   <<StateKeys[1], "policy_0", NoneR, Terminal>>}

Trajectories ==
  UNION {[1..n -> ApiEntries] : n \in 0..MaxTraj}

\* the entries the loop of propagate_rewards does not skip
Complete(e) == e[1] # None /\ e[2] # None /\ e[3] # NoneR

\* a trajectory with every stored reward replaced by r
WithRewards(trajectory, r) ==
  [i \in 1..Len(trajectory) |->
     <<trajectory[i][1], trajectory[i][2],
       IF trajectory[i][3] = NoneR THEN NoneR ELSE Some(r), trajectory[i][4]>>]

\* a trajectory with every reward, stored or None, replaced by r
AllRewards(trajectory, r) ==
  [i \in 1..Len(trajectory) |->
     <<trajectory[i][1], trajectory[i][2], Some(r), trajectory[i][4]>>]

TableInit == \E fs \in FileSystems : Start(fs) /\ train_mode = TRUE

TableCall(t, o) ==
  /\ ncalls < MaxCalls
  /\ InstallTable(t)
  /\ ncalls' = ncalls + 1
  /\ op' = [o EXCEPT !.raised = t.err]
  /\ pre' = Snapshot
  /\ UNCHANGED <<multiActions, episode_rewards, previous_state, previous_policy,
                 total_rewards_by_policy, total_rewards_by_episode, reward_final,
                 epsilon, episodes, train_mode, steps, pc, ticks, files, runs,
                 policy_lists, queue_alias, flight>>

EnsureRowCall ==
  \E state \in States \cup {Terminal} :
     TableCall(check_state_exist(Table, state),
               [name |-> "check_state_exist", state |-> state, raised |-> FALSE])

ChooseCall ==
  \E observation \in States, eps \in Epsilons, u \in Draws, training \in BOOLEAN :
     \E choice \in ChoiceSet(check_state_exist(Table, observation),
                             observation, eps, u, training) :
        TableCall(choose_action(Table, observation, choice),
                  [name |-> "choose_action", state |-> observation,
                   explore |-> u < eps, training |-> training, choice |-> choice,
                   raised |-> FALSE])

LearnCall ==
  \E s \in States, a \in PolicyIds, r \in ApiRewards, s_ \in States \cup {Terminal} :
     TableCall(learn(Table, s, a, r, s_),
               [name |-> "learn", s |-> s, a |-> a, r |-> r, s_ |-> s_,
                raised |-> FALSE])

PropagateCall ==
  \E trajectory \in Trajectories, final_reward \in FinalRewards :
     TableCall(propagate_rewards(Table, trajectory, final_reward),
               [name |-> "propagate_rewards",
                empty |-> trajectory = <<>>,
                complete |-> Cardinality({i \in 1..Len(trajectory) :
                                            Complete(trajectory[i])}),
                final_reward |-> final_reward,
                zeroed |-> propagate_rewards(Table, WithRewards(trajectory, 0),
                                             final_reward).q,
                allzeroed |-> propagate_rewards(Table, AllRewards(trajectory, 0),
                                                final_reward).q,
                raised |-> FALSE])

TableNext == EnsureRowCall \/ ChooseCall \/ LearnCall \/ PropagateCall

TableSpec == TableInit /\ [][TableNext]_vars

\* ================================================================ claims
\* ---------------------------------------------- reading the call history
LogIdx == 1..Len(log)

\* log[i] lies between a propagate_rewards call and its return
InPropagate(i) ==
  \E j \in 1..(i - 1) :
     /\ log[j].op = "propagate_rewards"
     /\ \A k \in (j + 1)..(i - 1) : log[k].op # "return"

DirectLearns == {i \in LogIdx : log[i].op = "learn" /\ ~InPropagate(i)}
PropagatedLearns == {i \in LogIdx : log[i].op = "learn" /\ InPropagate(i)}
EventsOf(name) == {i \in LogIdx : log[i].op = name}

\* the last operation was a training tick carrying the episode-end signal
TerminalTick == op.name = "step" /\ train_mode /\ op.last

\* C1 (as claimed): when the episode-end signal arrives on a training tick
\* while the action queue is non-empty, step dispatches no queued action on
\* that tick.
C1_QueueAbandoned ==
  (TerminalTick /\ op.queue # <<>>) => EventsOf("dispatch") = {}

\* C2 (as claimed): after reset() every episode-scoped structure is cleared:
\* trajectory and queue empty, previous state and policy unset, accumulated
\* per-policy reward 0.
C2_ResetClears ==
  op.name = "reset" =>
     /\ episode_rewards = <<>>
     /\ multiActions = <<>>
     /\ previous_state = None
     /\ previous_policy = None
     /\ total_rewards_by_policy = 0

\* C3 (as claimed): on a terminal training tick learn is called directly
\* exactly once, with (previous_state, previous_policy, terminal reward,
\* 'terminal'), followed by exactly one propagate_rewards over the whole
\* trajectory, whose last entry is that terminal transition; nothing else is
\* appended and no other direct learn happens on the tick.
C3_TerminalLearnOnce ==
  TerminalTick =>
     /\ Cardinality(DirectLearns) = 1
     /\ \A i \in DirectLearns :
          /\ log[i].s = op.previous_state
          /\ log[i].a = op.previous_policy
          /\ log[i].r = reward_final
          /\ log[i].s_ = Terminal
          /\ \E j \in EventsOf("propagate_rewards") : i < j
     /\ Cardinality(EventsOf("propagate_rewards")) = 1
     /\ \A j \in EventsOf("propagate_rewards") : log[j].n = Len(episode_rewards)
     /\ episode_rewards =
          Append(op.trajectory, <<op.previous_state, op.previous_policy,
                                  Some(reward_final), Terminal>>)

\* C4 (as claimed): in training mode the whole terminal path (terminal
\* transition appended, direct learn, propagate_rewards run to its return)
\* runs on the tick that carries the episode-end signal, whatever the queue.
C4_TerminalPathRuns ==
  TerminalTick =>
     \E i, j, k, m \in LogIdx :
        /\ i < j /\ j < k /\ k < m
        /\ log[i].op = "append" /\ log[i].s_ = Terminal
        /\ log[j].op = "learn" /\ log[j].s_ = Terminal
        /\ log[k].op = "propagate_rewards"
        /\ log[m].op = "return"

\* C5 (as claimed): after propagate_rewards returns or fails, for every
\* trajectory, the live learning rate and discount are active.
C5_LiveRestored ==
  op.name = "propagate_rewards" =>
     learning_rate = LR_LIVE /\ reward_decay = RD_LIVE

\* C6 (as claimed): every learn call of the per-tick path (decision-time
\* learn, direct terminal learn) runs under the live configuration in every
\* episode, and every learn inside propagate_rewards under the retrain one.
C6_TwoRegimes ==
  /\ \A i \in DirectLearns : log[i].lr = LR_LIVE /\ log[i].rd = RD_LIVE
  /\ \A i \in PropagatedLearns : log[i].lr = LR_RETRAIN /\ log[i].rd = RD_RETRAIN

SingleDecisionLoss ==
  /\ TerminalTick
  /\ ~op.raised
  /\ op.trajectory = <<>>
  /\ op.previous_state \in States
  /\ op.previous_policy = "policy_0"
  /\ op.reward = -1
  /\ pre.q[op.previous_state]["policy_0"] = 0

\* C8 (as claimed): after the terminal path of a single-decision losing
\* episode the cell of that decision holds -0.5.
C8_LossValue ==
  SingleDecisionLoss =>
     op.terminal[op.previous_state]["policy_0"] = -(Scale \div 2)

\* C8 (amended): the cell holds -0.5 only while the direct learn runs with
\* learning rate 0, that is until a first propagate_rewards has completed
\* in the process (always so in the first episode); in every later episode
\* the direct learn runs with the live rate and the cell holds -0.5495.
C8_LossValueByEpisode ==
  SingleDecisionLoss =>
     /\ (op.episodes = 1 => pre.lr = LR_INIT)
     /\ pre.lr \in {LR_INIT, LR_LIVE}
     /\ op.terminal[op.previous_state]["policy_0"] =
          (IF pre.lr = LR_INIT THEN -500000 ELSE -549500)

\* a single-decision losing episode after one whose terminal path completed
C8_Witness == SingleDecisionLoss /\ op.episodes = 2 /\ pre.lr = LR_LIVE

C10_NewRowZero ==
  (op.name = "check_state_exist" /\ op.state \notin DOMAIN pre.q) =>
     /\ op.state \in DOMAIN q_table
     /\ \A c \in PolicyIds : q_table[op.state][c] = 0

\* a row added to a table that already holds another one
C10_Witness ==
  /\ op.name = "check_state_exist"
  /\ op.state \notin DOMAIN pre.q
  /\ pre.q # <<>>
  /\ op.state \in DOMAIN q_table

\* C11: check_state_exist for a state that already has a row leaves the
\* whole table unchanged: the row keeps its learned values and no row is
\* added.
C11_EnsureRowIdempotent ==
  (op.name = "check_state_exist" /\ op.state \in DOMAIN pre.q) =>
     q_table = pre.q

\* a second check_state_exist on a row that holds a learned value
C11_Witness ==
  /\ op.name = "check_state_exist"
  /\ op.state \in DOMAIN pre.q
  /\ \E c \in PolicyIds : pre.q[op.state][c] # 0
  /\ q_table = pre.q

\* C12: learn(s, a, r, 'terminal') sets value[s][a] to
\* value[s][a] + learning_rate * (r - value[s][a]): no bootstrap term, no
\* dependence on the discount or on another row; no other cell changes.
C12_TerminalLearn ==
  (op.name = "learn" /\ op.s_ = Terminal /\ ~op.raised) =>
     /\ op.s \in DOMAIN pre.q
     /\ q_table[op.s][op.a] =
          pre.q[op.s][op.a]
            + MulDiv(op.r - pre.q[op.s][op.a], pre.lr, LrDen)
     /\ \A k \in DOMAIN q_table : \A c \in PolicyIds :
          <<k, c>> # <<op.s, op.a>> =>
             q_table[k][c] = (IF k \in DOMAIN pre.q THEN pre.q[k][c] ELSE 0)

\* a terminal learn under a non-zero learning rate and discount that moved
\* the cell
C12_Witness ==
  /\ op.name = "learn"
  /\ op.s_ = Terminal
  /\ ~op.raised
  /\ pre.lr # 0
  /\ pre.rd # 0
  /\ q_table[op.s][op.a] # pre.q[op.s][op.a]

\* the row of state k before the call, all 0 when k had no row
RowBefore(k) == IF k \in DOMAIN pre.q THEN pre.q[k] ELSE [c \in PolicyIds |-> 0]

\* the largest value any registered policy has in a row
MaxOver(row) ==
  CHOOSE m \in {row[p] : p \in PolicyIds} : \A p \in PolicyIds : row[p] <= m

\* C13: learn(s, a, r, s') for a non-terminal s' uses
\* target = r + discount * max over all registered policies of value[s'][p]
\* (0 for an unseen s', value[s][a] included when s' = s) and sets
\* value[s][a] += learning_rate * (target - value[s][a]).
C13_BootstrapLearn ==
  (op.name = "learn" /\ op.s_ # Terminal /\ ~op.raised) =>
     LET target == op.r + MulDiv(MaxOver(RowBefore(op.s_)), pre.rd, DecayDen)
         before == RowBefore(op.s)[op.a]
     IN q_table[op.s][op.a] = before + MulDiv(target - before, pre.lr, LrDen)

\* a bootstrapping learn on s' = s whose row maximum is the non-zero value
\* of the updated cell itself, with other cells below it
C13_Witness ==
  /\ op.name = "learn"
  /\ op.s_ = op.s
  /\ ~op.raised
  /\ pre.lr # 0
  /\ pre.rd # 0
  /\ op.s \in DOMAIN pre.q
  /\ MaxOver(pre.q[op.s]) = pre.q[op.s][op.a]
  /\ MaxOver(pre.q[op.s]) > 0
  /\ \E p \in PolicyIds : pre.q[op.s][p] < pre.q[op.s][op.a]

\* the call did not explore: evaluation, or training with a draw not
\* below epsilon
Exploits == op.name = "choose_action" /\ ~(op.training /\ op.explore)

\* C14: whenever choose_action does not explore it returns a policy whose
\* value is the maximum of the state's row and reports is_exploration
\* false.
C14_GreedyChoice ==
  Exploits =>
     /\ op.choice[1] \in PolicyIds
     /\ q_table[op.state][op.choice[1]] = MaxOver(q_table[op.state])
     /\ op.choice[2] = FALSE

\* a greedy choice on a row with a single maximal policy, in training
C14_Witness ==
  /\ Exploits
  /\ op.training
  /\ \E p \in PolicyIds : q_table[op.state][p] < MaxOver(q_table[op.state])
  /\ q_table[op.state][op.choice[1]] = MaxOver(q_table[op.state])

\* C15 (as claimed): saving the value table and loading the snapshot
\* reproduces the same table: after reset() has written the table, the
\* loader returns the same state keys, policy columns and values.
C15_SaveLoadRoundTrip ==
  op.name = "reset" => create_model(files) = q_table

\* C16 (as claimed): the snapshot written by reset() is the one read at the
\* next startup: a table created after a reset starts with exactly the rows
\* and values that were saved.
C16_SnapshotPersists ==
  (op.name = "startup" /\ NEW_FILE \in DOMAIN files) =>
     q_table = read_csv(files[NEW_FILE]).q

\* C17 (as claimed): when the observation lacks a field the state encoder
\* requires, no exception escapes step and the tick appends nothing to the
\* trajectory, calls no learn and leaves the queue and the table unchanged.
C17_MalformedHandled ==
  (op.name = "step" /\ op.malformed) =>
     /\ ~op.raised
     /\ episode_rewards = op.trajectory
     /\ multiActions = op.queue
     /\ q_table = pre.q
     /\ EventsOf("learn") = {}

\* the tick dispatched a queued action whose precondition was unmet
UnmetDispatch ==
  /\ op.name = "step"
  /\ ~op.raised
  /\ \E i \in EventsOf("dispatch") : log[i].n = 0

\* what the terminal path added to the episode total on this tick
TerminalShare == IF TerminalTick THEN reward_final ELSE 0

\* C18 (as claimed): an action whose precondition is unmet yields (no-op
\* command, success 0, null position); the controller removes it from the
\* queue, adds its reward (-0.001) to the accumulated per-policy reward and
\* to the episode total, and the episode goes on with the rest of the queue.
C18_UnmetAddsReward ==
  UnmetDispatch =>
     /\ Cardinality(EventsOf("dispatch")) = 1
     /\ \A i \in EventsOf("dispatch") :
          /\ log[i].a = Head(op.queue)
          /\ log[i].s_ = "no_op"
          /\ log[i].s = None
     /\ multiActions = Tail(op.queue)
     /\ total_rewards_by_policy = op.total_rewards_by_policy + BASE_REWARD
     /\ total_rewards_by_episode =
          op.total_rewards_by_episode + TerminalShare + BASE_REWARD
     /\ pc = (IF op.last THEN "boundary" ELSE "running")

\* C18 (amended): as claimed in training mode; in evaluation mode the action
\* is removed from the queue in the same way but no reward is computed and
\* both reward totals stay as they were.
C18_UnmetByMode ==
  UnmetDispatch =>
     /\ Cardinality(EventsOf("dispatch")) = 1
     /\ \A i \in EventsOf("dispatch") :
          /\ log[i].a = Head(op.queue)
          /\ log[i].s_ = "no_op"
          /\ log[i].s = None
     /\ multiActions = Tail(op.queue)
     /\ total_rewards_by_policy =
          op.total_rewards_by_policy + (IF op.train_mode THEN BASE_REWARD ELSE 0)
     /\ total_rewards_by_episode =
          op.total_rewards_by_episode + TerminalShare
            + (IF op.train_mode THEN BASE_REWARD ELSE 0)
     /\ pc = (IF op.last THEN "boundary" ELSE "running")

\* an unmet action popped in training mode with more actions behind it
C18_Witness ==
  /\ UnmetDispatch
  /\ op.train_mode
  /\ Len(op.queue) >= 2
  /\ multiActions = Tail(op.queue)

C20_FifoDrain ==
  /\ policy_lists = dict_policies
  /\ flight.decided # None =>
       LET list == dict_policies[flight.decided]
           k == Len(flight.dispatched)
       IN /\ k <= Len(list)
          /\ flight.since = k
          /\ flight.dispatched = SubSeq(list, 1, k)
          /\ multiActions = SubSeq(list, k + 1, Len(list))
  /\ flight.prior_decided # None =>
       flight.prior_dispatched = dict_policies[flight.prior_decided]

\* the decision tick that follows a fully drained three-action policy with
\* a repeated entry
C20_Witness ==
  /\ flight.decided # None
  /\ flight.prior_decided = "policy_4"
  /\ flight.prior_dispatched =
       <<"build_command_center", "harvest_minerals", "harvest_minerals">>
  /\ flight.since = 0

\* the last operation was a training tick on which step made a decision
TrainingDecision ==
  /\ op.name = "step"
  /\ op.train_mode
  /\ EventsOf("choose_action") # {}

\* the state that follows the previous decision, as the decision branch
\* names it
NextStateOf == IF op.last THEN Terminal ELSE op.state

\* the transition (s, a, r, s') is appended and then passed to learn on this
\* tick, both before the choice
AppendedAndLearned(s, a, r, s_) ==
  \E i, j, k \in LogIdx :
     /\ i < j /\ j < k
     /\ log[i].op = "append" /\ log[j].op = "learn" /\ log[k].op = "choose_action"
     /\ \A e \in {i, j} :
          log[e].s = s /\ log[e].a = a /\ log[e].r = r /\ log[e].s_ = s_

\* C21: at every training decision tick with a previous decision in the
\* episode, (previous_state, previous_policy, R, s_next) is appended to the
\* trajectory and passed to learn, R being exactly the sum of the
\* instantaneous rewards of the actions dispatched since that previous
\* decision; the accumulated reward is then 0; at the first decision of an
\* episode nothing is appended and learn is not called.
C21_LearnsAccumulated ==
  TrainingDecision =>
     /\ (op.previous_policy # None) = (op.flight.decided # None)
     /\ total_rewards_by_policy = 0
     /\ IF op.previous_policy # None
          THEN /\ op.flight.decided = op.previous_policy
               /\ op.total_rewards_by_policy = op.flight.rewards
               /\ AppendedAndLearned(op.previous_state, op.previous_policy,
                                     op.flight.rewards, NextStateOf)
               /\ episode_rewards[Len(episode_rewards)] =
                    <<op.previous_state, op.previous_policy,
                      Some(op.flight.rewards), NextStateOf>>
          ELSE /\ EventsOf("append") = {}
               /\ EventsOf("learn") = {}
               /\ episode_rewards = <<>>

\* a decision that follows a three-action policy whose actions earned
\* different rewards
C21_Witness ==
  /\ TrainingDecision
  /\ op.previous_policy = "policy_4"
  /\ Len(op.flight.dispatched) = 3
  /\ op.flight.rewards \notin {0, 3 * BASE_REWARD}
  /\ Len(episode_rewards) >= 1

\* the tick dispatched the first action of the policy chosen on the tick
\* before it
FirstDispatch ==
  /\ op.name = "step"
  /\ op.flight.decided # None
  /\ op.flight.since = 0
  /\ EventsOf("dispatch") # {}

\* C22 (as claimed): on a training decision tick with a previous decision
\* the learn call for (previous_state, previous_policy, r, s_next) completes
\* before choose_action reads the row of s_next and nothing learns after the
\* choice on that tick; and no learn call touches the table between that
\* choice and the dispatch of the first action of the chosen policy.
C22_LearnBeforeChoice ==
  /\ (TrainingDecision /\ op.previous_policy # None) =>
        \E j, k \in LogIdx :
           /\ j < k
           /\ log[j].op = "learn"
           /\ log[j].s = op.previous_state /\ log[j].a = op.previous_policy
           /\ log[j].s_ = NextStateOf
           /\ log[k].op = "choose_action"
           /\ \A m \in LogIdx : m > k => log[m].op # "learn"
  /\ FirstDispatch =>
        \A d \in EventsOf("dispatch") : \A m \in 1..(d - 1) : log[m].op # "learn"

\* C23 (as claimed): learn ensures a row for next_state only when it is not
\* the terminal sentinel: whatever operations have run, the table has no
\* row keyed 'terminal' and every key is an encoded game state.
C23_NoTerminalRow ==
  /\ Terminal \notin DOMAIN q_table
  /\ DOMAIN q_table \subseteq States

\* np.exp(-EXPLORATION_DECAY * episode) scaled by EXPLORATION_MAX, for the
\* episode counter of the decision
RawDecay == exponential_decay(episodes, EXPLORATION_DECAY, EXPLORATION_MAX)

\* C24 (as claimed): at a training decision epsilon equals
\* max_rate * exp(-decay_rate * episode) for the current episode counter,
\* and the value used for the next episode is strictly smaller, for every
\* episode number.
C24_EpsilonDecays ==
  op.name = "epsilon" =>
     /\ epsilon = RawDecay
     /\ op.next < epsilon

\* C24 (amended): epsilon is the larger of EXPLORATION_MIN (0.1) and
\* max_rate * exp(-decay_rate * episode): 1.0 at episode 0, strictly
\* decreasing from an episode to the next while the decayed value is above
\* 0.1, and equal to 0.1 in every episode after that.
C24_EpsilonFloored ==
  op.name = "epsilon" =>
     /\ epsilon = (IF RawDecay > EXPLORATION_MIN THEN RawDecay ELSE EXPLORATION_MIN)
     /\ EXPLORATION_MIN <= epsilon
     /\ epsilon <= EXPLORATION_MAX
     /\ (episodes = 0 => epsilon = EXPLORATION_MAX)
     /\ op.next <= epsilon
     /\ (op.next = epsilon) = (epsilon = EXPLORATION_MIN)

\* an episode whose decayed value is below the lower limit, followed by an
\* episode with the same epsilon
C24_Witness ==
  /\ op.name = "epsilon"
  /\ RawDecay < EXPLORATION_MIN
  /\ epsilon = EXPLORATION_MIN
  /\ op.next = epsilon

\* C25 (as claimed): the terminal reward is 100 on a win and -50 on a loss;
\* on a draw it is derived from the unit counts of the two sides:
\* min(int(0.1 * my_units / enemy_units), 10) when the agent has at least as
\* many units as the enemy, max(int(-0.1 * enemy_units / my_units), -1) when
\* it has fewer (a count of 0 taken as 1).
C25_DrawByUnitCounts ==
  TerminalTick =>
     reward_final =
       (IF op.reward = 1 THEN R_WIN * Scale
        ELSE IF op.reward = -1 THEN R_LOSS * Scale
        ELSE DrawReward(Max2(op.len_my_units, 1), Max2(op.len_enemy_units, 1))
               * Scale)

\* C26 (as claimed): when choose_action returns a policy id that is not in
\* the registry the decision degrades safely: no table value of that id is
\* ever modified, and the ticks that follow, the learn call of the next
\* decision included, raise no error.
C26_UnknownPolicySafe ==
  /\ \A s \in DOMAIN q_table :
        UNKNOWN_ID \in DOMAIN q_table[s] =>
           q_table[s][UNKNOWN_ID] = ForeignTable[s][UNKNOWN_ID]
  /\ (op.name = "step" /\ op.previous_policy = UNKNOWN_ID /\ ~op.malformed) =>
        ~op.raised

\* C27 (as claimed): whenever the terminal path runs, a previous decision
\* exists in the episode: previous_state and previous_policy are set, and
\* the terminal transition appended and passed to learn has a state and a
\* policy.
C27_PreviousDecisionExists ==
  TerminalTick =>
     /\ op.previous_state # None
     /\ op.previous_policy # None
     /\ \A i \in EventsOf("append") \cup EventsOf("learn") :
          log[i].s # None /\ log[i].a # None

\* C28 (as claimed): within an episode each decision contributes exactly
\* one trajectory entry (added when the next decision or the episode end
\* closes it); the next_state of an entry is the state of the entry after
\* it; 'terminal' is the next_state of the last entry only; the trajectory
\* is empty when an episode starts.
C28_TrajectoryChained ==
  /\ \A i \in 1..(Len(episode_rewards) - 1) :
        /\ episode_rewards[i][4] = episode_rewards[i + 1][1]
        /\ episode_rewards[i][4] # Terminal
  /\ (op.name = "step" /\ op.train_mode /\ ~op.raised) =>
        Len(episode_rewards) =
          Len(op.trajectory)
            + (IF op.last \/ (op.queue = <<>> /\ op.previous_policy # None)
                 THEN 1 ELSE 0)
  /\ op.name = "reset" => episode_rewards = <<>>

\* C29: learn(s, a, r, s') changes no table value other than value[s][a]:
\* every other cell of row s and every cell of every other existing row
\* keeps its value; the only other effect is the insertion of an all-zero
\* row for a previously unseen s'; learning rate and discount are left as
\* they were.
C29_LearnFrame ==
  op.name = "learn" =>
     /\ DOMAIN q_table = DOMAIN pre.q \cup {op.s_}
     /\ \A k \in DOMAIN q_table :
          /\ DOMAIN q_table[k] = DOMAIN RowBefore(k)
          /\ \A c \in DOMAIN q_table[k] :
               <<k, c>> # <<op.s, op.a>> => q_table[k][c] = RowBefore(k)[c]
     /\ learning_rate = pre.lr
     /\ reward_decay = pre.rd

\* a learn that moved its cell and inserted the row of an unseen s', on a
\* table holding a non-zero value in another cell
C29_Witness ==
  /\ op.name = "learn"
  /\ ~op.raised
  /\ op.s \in DOMAIN pre.q
  /\ op.s_ \notin DOMAIN pre.q
  /\ op.s_ \in DOMAIN q_table
  /\ q_table[op.s][op.a] # pre.q[op.s][op.a]
  /\ \E c \in PolicyIds \ {op.a} : pre.q[op.s][c] # 0 /\ q_table[op.s][c] = pre.q[op.s][c]

\* the last operation was a tick in evaluation mode
EvaluationTick == op.name = "step" /\ ~op.train_mode

\* C30: in evaluation mode no tick, terminal or not, changes the value of
\* an existing cell, appends to the trajectory or runs the terminal path
\* (no append, no learn, no propagate_rewards); the table changes only by
\* gaining an all-zero row for a newly seen state; every choice is an
\* exploitation choice: a policy with the maximal value of the row,
\* reported as not explored.
C30_EvaluationFrame ==
  EvaluationTick =>
     /\ \A k \in DOMAIN pre.q : k \in DOMAIN q_table /\ q_table[k] = pre.q[k]
     /\ \A k \in DOMAIN q_table \ DOMAIN pre.q :
          /\ k = op.state
          /\ \A c \in PolicyIds : q_table[k][c] = 0
     /\ episode_rewards = op.trajectory
     /\ episode_rewards = <<>>
     /\ EventsOf("append") = {}
     /\ EventsOf("learn") = {}
     /\ EventsOf("propagate_rewards") = {}
     /\ reward_final = 0
     /\ \A i \in EventsOf("choose_action") :
          /\ log[i].n = 0
          /\ log[i].a \in PolicyIds
          /\ q_table[op.state][log[i].a] = MaxOver(q_table[op.state])

\* an evaluation tick that carries the episode end and decides on a state
\* seen for the first time, with other rows in the table
C30_Witness ==
  /\ EvaluationTick
  /\ op.last
  /\ ~op.raised
  /\ pre.q # <<>>
  /\ op.state \notin DOMAIN pre.q
  /\ op.state \in DOMAIN q_table
  /\ EventsOf("choose_action") # {}

====
